---- MODULE Spec2Model ----
(***************************************************************************)
(* Model of src/App.py, the Climate Change Dashboard script.               *)
(*                                                                         *)
(* The script is a Streamlit page: every change of a sidebar control       *)
(* reruns the whole file top to bottom with the new control values.  One   *)
(* action of the model is one such rerun.  The state is the process-wide   *)
(* st.cache_data memo, the random stream numpy draws from, the widget      *)
(* state of the session, and the values the script's globals hold at the   *)
(* end of the run (the tables, the filtered tables and what each section   *)
(* rendered).                                                              *)
(*                                                                         *)
(* Numbers are fixed point: temperatures in 1/10000 degC, CO2 in 1/10 ppm, *)
(* sea level in 1/10 mm, so that every coefficient of the script (0.008,   *)
(* 1.2, 0.9, 1.8, 3.3) is an integer operation.                            *)
(***************************************************************************)
EXTENDS Integers, Sequences, FiniteSets, TLC

\* ---- program constants ------------------------------------------------
FirstYear == 1880
EndYear == 2024
CO2FirstYear == 1958
SeaFirstYear == 1993
DefaultStart == 1980
TargetYear == 2100

TempBase == -1600
TempSlope == 80
TempSigma == 1000
CO2Base == 3150
CO2Slope == 18
CO2Sigma == 20
SeaSlope == 33
SeaSigma == 50
current_rate == 33

\* ---- bounds of the exploration ----------------------------------------
\* Seeds of the random stream the process may start with.
MaxSeed == 1
\* The slider positions explored: the years where a table starts or ends,
\* the Near years before each, and the default start of the slider.
Near == 0

Seeds == 1..MaxSeed

\* ---- helpers ----------------------------------------------------------
PyRange(a, b) == [i \in 1..(IF b > a THEN b - a ELSE 0) |-> a + i - 1]

\* One draw of np.random.normal(0, sigma): the k-th number of the stream
\* seeded with s, in half-sigma steps between -1.5 and 1.5 sigma.
Normal(s, k, sigma) ==
    ((((s * 7919 + k * 104729 + k * k * 13 + 1) % 7) - 3) * sigma) \div 2

\* series.iloc[0] and series.iloc[-1] (and list[-1]): the element, or
\* IndexError on an empty series.
IlocFirst(s) == IF Len(s) = 0 THEN [ok |-> FALSE, exc |-> "IndexError"]
                ELSE [ok |-> TRUE, v |-> s[1]]
IlocLast(s) == IF Len(s) = 0 THEN [ok |-> FALSE, exc |-> "IndexError"]
               ELSE [ok |-> TRUE, v |-> s[Len(s)]]

\* ---- the generator ----------------------------------------------------
Global == "Global"
regions == <<"Northern Hemisphere", "Southern Hemisphere", "Arctic", "Tropics">>
Regions == {Global} \cup {regions[i] : i \in 1..Len(regions)}

RegionFactor(v, region) ==
    IF region = "Arctic" THEN (v * 12) \div 10
    ELSE IF region = "Southern Hemisphere" THEN (v * 9) \div 10
    ELSE v

\* Number of draws one execution of the generator body takes from the stream.
DrawsPerLoad == (EndYear - FirstYear) + (EndYear - CO2FirstYear) + (EndYear - SeaFirstYear)

\* The temperature table: the Global rows, then the rows of each region
TempDf(s, p) ==
    LET years == PyRange(FirstYear, EndYear)
        n == Len(years)
        temp_anomaly == [i \in 1..n |->
            TempBase + (years[i] - FirstYear) * TempSlope + Normal(s, p + i, TempSigma)]
        RegionRows(region) == [i \in 1..n |->
            [Year |-> years[i],
             Temperature_Anomaly |-> RegionFactor(temp_anomaly[i], region),
             Region |-> region]]
        global_rows == [i \in 1..n |->
            [Year |-> years[i], Temperature_Anomaly |-> temp_anomaly[i], Region |-> Global]]
    IN  global_rows \o RegionRows(regions[1]) \o RegionRows(regions[2])
            \o RegionRows(regions[3]) \o RegionRows(regions[4])

\* The CO2 table
CO2Df(s, p) ==
    LET co2_years == PyRange(CO2FirstYear, EndYear)
    IN  [i \in 1..Len(co2_years) |->
            [Year |-> co2_years[i],
             CO2_ppm |-> CO2Base + (co2_years[i] - CO2FirstYear) * CO2Slope
                            + Normal(s, p + i, CO2Sigma)]]

\* SeaDf over the years of the CO2 record
SeaDfFromCO2Years(s, p) ==
    LET sea_years == PyRange(CO2FirstYear, EndYear)
    IN  [i \in 1..Len(sea_years) |->
            [Year |-> sea_years[i],
             Sea_Level_mm |-> 0 + (sea_years[i] - SeaFirstYear) * SeaSlope
                            + Normal(s, p + i, SeaSigma)]]

\* SeaDf ending one year before the temperature table does
SeaDfOneYearShort(s, p) ==
    LET sea_years == PyRange(SeaFirstYear, EndYear - 1)
    IN  [i \in 1..Len(sea_years) |->
            [Year |-> sea_years[i],
             Sea_Level_mm |-> 0 + (sea_years[i] - SeaFirstYear) * SeaSlope
                            + Normal(s, p + i, SeaSigma)]]

\* The sea level table
SeaDf(s, p) ==
    LET sea_years == PyRange(SeaFirstYear, EndYear)
    IN  [i \in 1..Len(sea_years) |->
            [Year |-> sea_years[i],
             Sea_Level_mm |-> 0 + (sea_years[i] - SeaFirstYear) * SeaSlope
                            + Normal(s, p + i, SeaSigma)]]

\* The body of load_climate_data, run with the stream of seed s at position
\* p: each table takes its draws where the one before it stopped.
GenerateBody(s, p) ==
    [temp |-> TempDf(s, p),
     co2 |-> CO2Df(s, p + (EndYear - FirstYear)),
     sea |-> SeaDf(s, p + (EndYear - FirstYear) + (EndYear - CO2FirstYear))]

\* ---- state -------------------------------------------------------------
VARIABLES
    cache,             \* the st.cache_data memo of load_climate_data
    rng,               \* numpy's global random stream: its seed and position
    gen_runs,          \* how many times the body of load_climate_data has run
    session,           \* "new" before the first run of the script, then "live"
    year_range,        \* the slider's value, <<start, end>>
    selected_regions,  \* the multiselect's value; the script reads it with
                       \* isin alone, so it is kept as the set of its entries
    temp_data, co2_data, sea_data,
    filtered_temp, filtered_co2, filtered_sea,
    global_temp_data,
    page,              \* what each section of the page rendered in the last run
    raised             \* the exception that ended the last run, or "none"

vars == <<cache, rng, gen_runs, session, year_range, selected_regions,
          temp_data, co2_data, sea_data, filtered_temp, filtered_co2,
          filtered_sea, global_temp_data, page, raised>>

\* ---- @st.cache_data ----------------------------------------------------
\* load_climate_data without the decorator: every call runs the body
load_uncached(c, r, n) ==
    [value |-> GenerateBody(r.seed, r.pos),
     cache |-> [filled |-> TRUE, value |-> GenerateBody(r.seed, r.pos)],
     rng |-> [seed |-> r.seed, pos |-> r.pos + DrawsPerLoad],
     gen_runs |-> n + 1]

\* A call of the decorated function: the memo's value when it has one, else
\* the body's result, which is then memoised.
load_climate_data(c, r, n) ==
    IF c.filled
    THEN [value |-> c.value, cache |-> c, rng |-> r, gen_runs |-> n]
    ELSE LET v == GenerateBody(r.seed, r.pos)
         IN  [value |-> v,
              cache |-> [filled |-> TRUE, value |-> v],
              rng |-> [seed |-> r.seed, pos |-> r.pos + DrawsPerLoad],
              gen_runs |-> n + 1]

\* ---- column helpers ----------------------------------------------------
\* Column folds split the rows in halves, so that their depth is the
\* logarithm of the table's length.
RECURSIVE YearMinOf(_, _, _)
YearMinOf(t, lo, hi) ==
    IF lo = hi THEN t[lo].Year
    ELSE LET mid == (lo + hi) \div 2
             a == YearMinOf(t, lo, mid)
             b == YearMinOf(t, mid + 1, hi)
         IN  IF a <= b THEN a ELSE b

RECURSIVE YearMaxOf(_, _, _)
YearMaxOf(t, lo, hi) ==
    IF lo = hi THEN t[lo].Year
    ELSE LET mid == (lo + hi) \div 2
             a == YearMaxOf(t, lo, mid)
             b == YearMaxOf(t, mid + 1, hi)
         IN  IF a >= b THEN a ELSE b

\* temp_data['Year'].min() and .max()
min_year(t) == YearMinOf(t, 1, Len(t))
max_year(t) == YearMaxOf(t, 1, Len(t))

\* temp_data['Region'].unique().tolist(): the regions in order of appearance
RECURSIVE UniqueOf(_, _, _)
UniqueOf(t, lo, hi) ==
    IF lo = hi THEN <<t[lo].Region>>
    ELSE LET mid == (lo + hi) \div 2
             a == UniqueOf(t, lo, mid)
             b == UniqueOf(t, mid + 1, hi)
             New(r) == \A j \in 1..Len(a) : a[j] # r
         IN  a \o SelectSeq(b, New)

available_regions(t) == UniqueOf(t, 1, Len(t))

\* ---- the filters -------------------------------------------------------
\* temp_data[(Year >= start) & (Year <= end) & Region.isin(selected)]
FilterTemperature(t, yr, sel) ==
    LET Keep(r) == r.Year >= yr[1] /\ r.Year <= yr[2] /\ r.Region \in sel
    IN  SelectSeq(t, Keep)

\* FilterSeries with the end of the range excluded
FilterSeriesOpenEnd(t, yr) ==
    LET Keep(r) == r.Year >= yr[1] /\ r.Year < yr[2]
    IN  SelectSeq(t, Keep)

\* table[(Year >= start) & (Year <= end)]
FilterSeries(t, yr) ==
    LET Keep(r) == r.Year >= yr[1] /\ r.Year <= yr[2]
    IN  SelectSeq(t, Keep)

FilterGlobal(t, yr) ==
    LET Keep(r) == r.Year >= yr[1] /\ r.Year <= yr[2] /\ r.Region = Global
    IN  SelectSeq(t, Keep)

\* GlobalTempData taken from the filtered table
GlobalFromFiltered(t, ft, yr) == FilterGlobal(ft, yr)

\* global_temp_data: temp_data[(Year >= start) & (Year <= end) &
\* (Region == 'Global')], taken from temp_data and not from filtered_temp
GlobalTempData(t, ft, yr) == FilterGlobal(t, yr)

\* ---- Key Metrics Row ---------------------------------------------------
\* Values used more than once are passed as operator arguments, which TLC
\* evaluates once.
Exception(e) == [kind |-> "exception", exc |-> e]
NotRendered == [kind |-> "not rendered"]

TempCol(t) == [i \in 1..Len(t) |-> t[i].Temperature_Anomaly]
CO2Col(t) == [i \in 1..Len(t) |-> t[i].CO2_ppm]
SeaCol(t) == [i \in 1..Len(t) |-> t[i].Sea_Level_mm]
RegionCol(t) == [i \in 1..Len(t) |-> t[i].Region]

\* st.metric("Global Temp Anomaly", latest_temp, latest_temp - first_temp)
TempMetric(latest_temp, first_temp, yr) ==
    IF ~latest_temp.ok THEN Exception(latest_temp.exc)
    ELSE IF ~first_temp.ok THEN Exception(first_temp.exc)
    ELSE [kind |-> "metric", label |-> "Global Temp Anomaly",
          value |-> latest_temp.v,
          delta |-> latest_temp.v - first_temp.v,
          since |-> yr[1]]

\* with col1: the Global temperature anomaly and its change since the start
Col1(g, yr) ==
    IF Len(g) > 0
    THEN TempMetric(IlocLast(TempCol(g)), IlocFirst(TempCol(g)), yr)
    ELSE [kind |-> "N/A", label |-> "Global Temp Anomaly",
          note |-> "Select 'Global' region"]

\* CO2Metric with the value repeated as its delta, as the sea level's is
CO2MetricDeltaIsValue(latest_co2, first_co2) ==
    IF ~latest_co2.ok THEN Exception(latest_co2.exc)
    ELSE IF ~first_co2.ok THEN Exception(first_co2.exc)
    ELSE [kind |-> "metric", label |-> "CO2 Levels",
          value |-> latest_co2.v,
          delta |-> latest_co2.v]

\* st.metric("CO2 Levels", latest_co2, latest_co2 - filtered_co2.iloc[0])
CO2Metric(latest_co2, first_co2) ==
    IF ~latest_co2.ok THEN Exception(latest_co2.exc)
    ELSE IF ~first_co2.ok THEN Exception(first_co2.exc)
    ELSE [kind |-> "metric", label |-> "CO2 Levels",
          value |-> latest_co2.v,
          delta |-> latest_co2.v - first_co2.v]

\* Col2 without its check of the table's length
Col2Unguarded(fc) ==
    CO2Metric(IlocLast(CO2Col(fc)), IlocFirst(CO2Col(fc)))

\* with col2: the CO2 level and its change over the filtered table
Col2(fc) ==
    IF Len(fc) > 0
    THEN CO2Metric(IlocLast(CO2Col(fc)), IlocFirst(CO2Col(fc)))
    ELSE [kind |-> "N/A", label |-> "CO2 Levels", note |-> "Data starts from 1958"]

\* st.metric("Sea Level Rise", latest_sea, "+latest_sea mm since 1993"): the
\* delta line repeats the value
SeaMetric(latest_sea) ==
    IF ~latest_sea.ok THEN Exception(latest_sea.exc)
    ELSE [kind |-> "metric", label |-> "Sea Level Rise",
          value |-> latest_sea.v,
          delta |-> latest_sea.v,
          since |-> SeaFirstYear]

\* with col3: the sea level
Col3(fs) ==
    IF Len(fs) > 0
    THEN SeaMetric(IlocLast(SeaCol(fs)))
    ELSE [kind |-> "N/A", label |-> "Sea Level Rise", note |-> "Data starts from 1993"]

\* (latest_temp - first_temp) / len(global_temp_data) * 10
AvgIncrease(latest, first, count) ==
    IF count = 0 THEN [ok |-> FALSE, exc |-> "ZeroDivisionError"]
    ELSE [ok |-> TRUE, v |-> ((latest - first) * 10) \div count]

AcceleratingAbove == 1500

\* st.metric("Warming Rate", avg_increase, "Accelerating" or "Stable")
RateMetric(avg_increase) ==
    IF ~avg_increase.ok THEN Exception(avg_increase.exc)
    ELSE [kind |-> "metric", label |-> "Warming Rate",
          value |-> avg_increase.v,
          delta |-> IF avg_increase.v > AcceleratingAbove
                    THEN "Accelerating" ELSE "Stable"]

\* with col4: the warming rate per decade, from col1's latest_temp and
\* first_temp, which are unbound (NameError) when col1 did not assign them
Col4(g, c1) ==
    IF Len(g) > 0
    THEN IF c1.kind # "metric" THEN Exception("NameError")
         ELSE RateMetric(AvgIncrease(c1.value, c1.value - c1.delta, Len(g)))
    ELSE [kind |-> "N/A", label |-> "Warming Rate", note |-> "Select 'Global' region"]

\* ---- grouping rows by a key --------------------------------------------
\* Two indexes combined: the rows of a key of both, in order
Combine(a, b) ==
    [k \in DOMAIN a \cap DOMAIN b |-> a[k] \o b[k]] @@ a @@ b

\* The rows lo..hi of a table indexed by key[i]: key |-> its rows, in order
RECURSIVE IndexBy(_, _, _, _)
IndexBy(rows, key, lo, hi) ==
    IF lo > hi THEN <<>>
    ELSE IF lo = hi THEN key[lo] :> <<rows[lo]>>
    ELSE Combine(IndexBy(rows, key, lo, (lo + hi) \div 2),
                 IndexBy(rows, key, (lo + hi) \div 2 + 1, hi))

\* ---- tab1: temperature trends ------------------------------------------
RECURSIVE SumFrom(_, _)
SumFrom(col, i) == IF i > Len(col) THEN 0 ELSE col[i] + SumFrom(col, i + 1)

\* series.mean(), rounded down to the fixed-point unit
Mean(col) == SumFrom(col, 1) \div Len(col)

RECURSIVE SortedSeq(_)
SortedSeq(S) ==
    IF S = {} THEN <<>>
    ELSE LET m == CHOOSE x \in S : \A y \in S : x <= y
         IN  <<m>> \o SortedSeq(S \ {m})

\* (Year // 10) * 10
Decade(year) == (year \div 10) * 10

WithDecade(rows) ==
    [i \in 1..Len(rows) |->
        [Year |-> rows[i].Year,
         Temperature_Anomaly |-> rows[i].Temperature_Anomaly,
         Region |-> rows[i].Region,
         Decade |-> Decade(rows[i].Year)]]

\* decade_avg: a copy of the rows of one region with a Decade column added
DecadeAvg(ft, region) ==
    LET OfRegion(r) == r.Region = region
    IN  WithDecade(SelectSeq(ft, OfRegion))

GroupMeans(groups, keys) ==
    [k \in 1..Len(keys) |->
        [Decade |-> keys[k],
         Temperature_Anomaly |-> Mean(TempCol(groups[keys[k]]))]]

MeansOf(groups) == GroupMeans(groups, SortedSeq(DOMAIN groups))

\* decade_avg.groupby('Decade')['Temperature_Anomaly'].mean().reset_index():
\* one row per decade that has rows, in ascending order of the decade
DecadeSummary(da) ==
    MeansOf(IndexBy(da, [i \in 1..Len(da) |-> da[i].Decade], 1, Len(da)))

RegionalChart(latest_year_data) ==
    IF Len(latest_year_data) > 0
    THEN [kind |-> "chart", data |-> latest_year_data]
    ELSE [kind |-> "info"]

Tab1Charts(ft, yr, decade_region) ==
    LET AtEnd(r) == r.Year = yr[2]
    IN  IF ~decade_region.ok THEN Exception(decade_region.exc)
        ELSE [kind |-> "charts",
              rows |-> Len(ft),
              decade_region |-> decade_region.v,
              decade_summary |-> DecadeSummary(DecadeAvg(ft, decade_region.v)),
              regional |-> RegionalChart(SelectSeq(ft, AtEnd))]

Tab1(ft, yr) ==
    IF Len(ft) > 0
    THEN Tab1Charts(ft, yr,
            IF \E i \in 1..Len(ft) : ft[i].Region = Global
            THEN [ok |-> TRUE, v |-> Global]
            ELSE IlocFirst(RegionCol(ft)))
    ELSE [kind |-> "warning"]

\* ---- tab2: CO2 levels --------------------------------------------------
\* Diff with a zero in place of the missing first entry
DiffZeroFirst(col) ==
    [i \in 1..Len(col) |->
        IF i = 1 THEN [isna |-> FALSE, v |-> 0]
        ELSE [isna |-> FALSE, v |-> col[i] - col[i - 1]]]

\* series.diff(): one entry per row, the first one missing (NaN)
Diff(col) ==
    [i \in 1..Len(col) |->
        IF i = 1 THEN [isna |-> TRUE, v |-> 0]
        ELSE [isna |-> FALSE, v |-> col[i] - col[i - 1]]]

WithGrowth(fc, d) ==
    [i \in 1..Len(fc) |->
        [Year |-> fc[i].Year, CO2_ppm |-> fc[i].CO2_ppm, Growth_Rate |-> d[i]]]

\* co2_growth: a copy of the filtered table with a Growth_Rate column added
CO2Growth(fc) == WithGrowth(fc, Diff(CO2Col(fc)))

Tab2(fc) ==
    IF Len(fc) > 0
    THEN [kind |-> "charts", rows |-> Len(fc), co2_growth |-> CO2Growth(fc)]
    ELSE [kind |-> "info"]

\* ---- tab3: sea level and its projection --------------------------------
\* list(range(year_range[1], 2100))
ProjectionYears(yr) == PyRange(yr[2], TargetYear)

Project(last, yr, projection_years) ==
    [i \in 1..Len(projection_years) |->
        last + (projection_years[i] - yr[2]) * current_rate]

\* [last + (year - year_range[1]) * current_rate for year in projection_years]
ProjectedRise(last, yr) == Project(last, yr, ProjectionYears(yr))

\* st.warning("... could rise by projected_rise[-1] meters by 2100")
Tab3Warning(fs, yr, projected_rise, by_target) ==
    IF ~by_target.ok THEN Exception(by_target.exc)
    ELSE [kind |-> "charts",
          rows |-> Len(fs),
          projection_years |-> ProjectionYears(yr),
          projected_rise |-> projected_rise,
          warning |-> [by |-> TargetYear, rise |-> by_target.v]]

Tab3Projection(fs, yr, projected_rise) ==
    Tab3Warning(fs, yr, projected_rise, IlocLast(projected_rise))

Tab3Charts(fs, yr, last) ==
    IF ~last.ok THEN Exception(last.exc)
    ELSE Tab3Projection(fs, yr, ProjectedRise(last.v, yr))

Tab3(fs, yr) ==
    IF Len(fs) > 0
    THEN Tab3Charts(fs, yr, IlocLast(SeaCol(fs)))
    ELSE [kind |-> "info"]

\* ---- tab4: correlations ------------------------------------------------
JoinRows(l, hits) ==
    [j \in 1..Len(hits) |->
        [Year |-> l.Year,
         Temperature_Anomaly |-> l.Temperature_Anomaly,
         CO2_ppm |-> hits[j].CO2_ppm]]

\* The left rows lo..hi, in order, each joined with the right rows of its Year
RECURSIVE Probe(_, _, _, _)
Probe(left, index, lo, hi) ==
    IF lo > hi THEN <<>>
    ELSE IF lo = hi
    THEN IF left[lo].Year \in DOMAIN index
         THEN JoinRows(left[lo], index[left[lo].Year])
         ELSE <<>>
    ELSE Probe(left, index, lo, (lo + hi) \div 2)
            \o Probe(left, index, (lo + hi) \div 2 + 1, hi)

\* pd.merge(left, right, on='Year', how='inner'): the right rows are indexed
\* by Year and the left rows probe the index in their order
Merge(left, right) ==
    Probe(left, IndexBy(right, [i \in 1..Len(right) |-> right[i].Year], 1, Len(right)),
          1, Len(left))

\* MergedData without the selection of the Global rows
MergedDataAllRegions(t, c) == Merge(t, c)

MergedData(t, c) ==
    LET IsGlobal(r) == r.Region = Global
    IN  Merge(SelectSeq(t, IsGlobal), c)

\* Series.corr: missing (NaN) with fewer than two points.  The value of the
\* coefficient itself is not modelled.
Correlation(m) == [points |-> Len(m), isna |-> Len(m) < 2]

Tab4Charts(merged_data) ==
    [kind |-> "charts", merged_data |-> merged_data,
     correlation |-> Correlation(merged_data)]

Tab4(t, c) == Tab4Charts(MergedData(t, c))

\* ---- download section --------------------------------------------------
\* to_csv(index=False): the header line and one line per row
ToCsv(t, header) == [header |-> header, lines |-> Len(t)]

Download(name, yr, csv) ==
    [kind |-> "button", data |-> csv,
     file_name |-> [base |-> name, start |-> yr[1], end |-> yr[2]]]

DownloadTemp(ft, yr) ==
    Download("temperature_data", yr,
             ToCsv(ft, <<"Year", "Temperature_Anomaly", "Region">>))

DownloadCO2(fc, yr) ==
    IF Len(fc) > 0
    THEN Download("co2_data", yr, ToCsv(fc, <<"Year", "CO2_ppm">>))
    ELSE [kind |-> "info"]

DownloadSea(fs, yr) ==
    IF Len(fs) > 0
    THEN Download("sea_level_data", yr, ToCsv(fs, <<"Year", "Sea_Level_mm">>))
    ELSE [kind |-> "info"]

\* ---- one run of the script ---------------------------------------------
\* An exception ends the run: the sections after it are not rendered.
Shown(raw, i) ==
    IF \E j \in 1..(i - 1) : raw[j].kind = "exception"
    THEN NotRendered ELSE raw[i]

\* The page by the name of its sections
AsPage(raw) ==
    [col1 |-> Shown(raw, 1), col2 |-> Shown(raw, 2), col3 |-> Shown(raw, 3),
     col4 |-> Shown(raw, 4), tab1 |-> Shown(raw, 5), tab2 |-> Shown(raw, 6),
     tab3 |-> Shown(raw, 7), tab4 |-> Shown(raw, 8), dl_temp |-> Shown(raw, 9),
     dl_co2 |-> Shown(raw, 10), dl_sea |-> Shown(raw, 11)]

RenderFrom(c1, t, c, ft, fc, fs, g, yr) ==
    AsPage(<<c1, Col2(fc), Col3(fs), Col4(g, c1),
             Tab1(ft, yr), Tab2(fc), Tab3(fs, yr), Tab4(t, c),
             DownloadTemp(ft, yr), DownloadCO2(fc, yr), DownloadSea(fs, yr)>>)

\* The sections in the order the script reaches them
Render(t, c, ft, fc, fs, g, yr) ==
    RenderFrom(Col1(g, yr), t, c, ft, fc, fs, g, yr)

\* The exception that ended the run, if one did
RaisedBy(pg) ==
    IF \E k \in DOMAIN pg : pg[k].kind = "exception"
    THEN (pg[CHOOSE k \in DOMAIN pg : pg[k].kind = "exception"]).exc
    ELSE "none"

\* The script from the tables on, with the slider and the multiselect
\* returning yr and sel.
RunOn(ld, yr, sel) ==
    /\ cache' = ld.cache
    /\ rng' = ld.rng
    /\ gen_runs' = ld.gen_runs
    /\ session' = "live"
    /\ year_range' = yr
    /\ selected_regions' = sel
    /\ temp_data' = ld.value.temp
    /\ co2_data' = ld.value.co2
    /\ sea_data' = ld.value.sea
    /\ filtered_temp' = FilterTemperature(temp_data', yr, sel)
    /\ filtered_co2' = FilterSeries(co2_data', yr)
    /\ filtered_sea' = FilterSeries(sea_data', yr)
    /\ global_temp_data' = GlobalTempData(temp_data', filtered_temp', yr)
    /\ page' = Render(temp_data', co2_data', filtered_temp', filtered_co2',
                      filtered_sea', global_temp_data', yr)
    /\ raised' = RaisedBy(page')

\* One run of the script, from "Load data" to the download section
Run(yr, sel) == RunOn(load_climate_data(cache, rng, gen_runs), yr, sel)

\* ---- the sidebar controls ----------------------------------------------
\* The multiselect's default
DefaultRegions == {"Global", "Arctic"}

\* The years where a table starts or ends
Anchors == {FirstYear, CO2FirstYear, SeaFirstYear, EndYear - 1}

\* The slider positions explored, of the slider's min_year..max_year
SliderYears ==
    {y \in min_year(temp_data)..max_year(temp_data) :
        \/ y = DefaultStart
        \/ \E a \in Anchors : y <= a /\ a - y <= Near}

Init ==
    /\ cache = [filled |-> FALSE]
    /\ rng \in {[seed |-> s, pos |-> 0] : s \in Seeds}
    /\ gen_runs = 0
    /\ session = "new"
    /\ year_range = <<>>
    /\ selected_regions = {}
    /\ temp_data = <<>>
    /\ co2_data = <<>>
    /\ sea_data = <<>>
    /\ filtered_temp = <<>>
    /\ filtered_co2 = <<>>
    /\ filtered_sea = <<>>
    /\ global_temp_data = <<>>
    /\ page = [k \in {} |-> NotRendered]
    /\ raised = "none"

\* The slider's default is (1980, max_year) of the tables the run loads.
OpenOn(ld) == RunOn(ld, <<DefaultStart, max_year(ld.value.temp)>>, DefaultRegions)

\* A browser opens the page, or reloads it: a session with the controls at
\* their defaults runs the script.
OpenPage ==
    /\ session \in {"new", "live"}
    /\ OpenOn(load_climate_data(cache, rng, gen_runs))

\* The user drags the slider's lower handle.
MoveStart ==
    /\ session = "live"
    /\ \E y \in SliderYears :
        /\ y # year_range[1]
        /\ y <= year_range[2]
        /\ Run(<<y, year_range[2]>>, selected_regions)

\* The user drags the slider's upper handle.
MoveEnd ==
    /\ session = "live"
    /\ \E y \in SliderYears :
        /\ y # year_range[2]
        /\ y >= year_range[1]
        /\ Run(<<year_range[1], y>>, selected_regions)

\* The user adds one of the options to the multiselect.
AddRegion(options) ==
    \E i \in 1..Len(options) :
        /\ options[i] \notin selected_regions
        /\ Run(year_range, selected_regions \cup {options[i]})

SelectRegion ==
    /\ session = "live"
    /\ AddRegion(available_regions(temp_data))

\* The user removes a region from the multiselect.
DeselectRegion ==
    /\ session = "live"
    /\ \E r \in selected_regions :
        Run(year_range, selected_regions \ {r})

Next ==
    \/ OpenPage
    \/ MoveStart
    \/ MoveEnd
    \/ SelectRegion
    \/ DeselectRegion

Spec == Init /\ [][Next]_vars

\* ======================================================================
\* Properties
\* ======================================================================
Live == session = "live"

InRange(y) == y >= year_range[1] /\ y <= year_range[2]

MaxYear == EndYear - 1

\* The number of rows lo..hi of a table that a filter is to keep
CountKept(keep, lo, hi) == Cardinality({i \in lo..hi : keep[i]})

\* The rows lo..hi of base that are to be kept are, in their order, the
\* rows of f after its first k
RECURSIVE KeptInOrder(_, _, _, _, _, _)
KeptInOrder(base, keep, f, lo, hi, k) ==
    IF lo > hi THEN TRUE
    ELSE IF lo = hi
    THEN keep[lo] => (k + 1 <= Len(f) /\ f[k + 1] = base[lo])
    ELSE /\ KeptInOrder(base, keep, f, lo, (lo + hi) \div 2, k)
         /\ KeptInOrder(base, keep, f, (lo + hi) \div 2 + 1, hi,
                        k + CountKept(keep, lo, (lo + hi) \div 2))

\* f is exactly the subsequence of base of the rows to be kept
IsExactFilter(base, keep, f) ==
    /\ Len(f) = CountKept(keep, 1, Len(base))
    /\ Len(f) <= Len(base)
    /\ KeptInOrder(base, keep, f, 1, Len(base), 0)

\* C1: after every run, for every year range and region selection, the
\* filtered temperature table is exactly the rows of the base table with
\* start <= Year <= end and Region in the selection, in the base table's
\* order, and the filtered CO2 and sea-level tables are exactly the rows of
\* their base tables with start <= Year <= end, in order: no row outside
\* the range or selection, none dropped, never more rows than the base.
C1_FiltersAreExactSubsequences ==
    Live =>
        /\ IsExactFilter(temp_data,
                [i \in 1..Len(temp_data) |->
                    InRange(temp_data[i].Year)
                    /\ temp_data[i].Region \in selected_regions],
                filtered_temp)
        /\ IsExactFilter(co2_data,
                [i \in 1..Len(co2_data) |-> InRange(co2_data[i].Year)],
                filtered_co2)
        /\ IsExactFilter(sea_data,
                [i \in 1..Len(sea_data) |-> InRange(sea_data[i].Year)],
                filtered_sea)
        /\ \A i \in 1..Len(filtered_temp) :
                InRange(filtered_temp[i].Year)
                /\ filtered_temp[i].Region \in selected_regions
        /\ \A i \in 1..Len(filtered_co2) : InRange(filtered_co2[i].Year)
        /\ \A i \in 1..Len(filtered_sea) : InRange(filtered_sea[i].Year)

\* A run whose filters keep some rows of each table and drop others, with a
\* region deselected.
C1_Witness ==
    /\ Live
    /\ Len(filtered_temp) > 0 /\ Len(filtered_temp) < Len(temp_data)
    /\ Len(filtered_co2) > 0 /\ Len(filtered_co2) < Len(co2_data)
    /\ Len(filtered_sea) > 0 /\ Len(filtered_sea) < Len(sea_data)
    /\ Global \notin selected_regions

\* No run ends in an exception, and the CO2 and sea-level sections take
\* their 'N/A' / guidance branch when their filtered table is empty.
GuardedSeries ==
    /\ raised = "none"
    /\ Len(filtered_co2) = 0 =>
            /\ page.col2.kind = "N/A"
            /\ page.tab2.kind = "info"
            /\ page.dl_co2.kind = "info"
    /\ Len(filtered_sea) = 0 =>
            /\ page.col3.kind = "N/A"
            /\ page.tab3.kind = "info"
            /\ page.dl_sea.kind = "info"
    /\ page.col4.kind = "metric" => Len(global_temp_data) > 0

C3_ProjectionReachesTargetYear ==
    (Live /\ Len(filtered_sea) > 0) =>
        LET last == filtered_sea[Len(filtered_sea)]
            years == page.tab3.projection_years
            rise == page.tab3.projected_rise
        IN  /\ page.tab3.kind = "charts"
            /\ Len(years) > 0
            /\ \A i \in 1..Len(years) :
                    rise[i] = last.Sea_Level_mm + (years[i] - last.Year) * current_rate
            /\ years[Len(years)] = TargetYear
            /\ page.tab3.warning.by = TargetYear
            /\ page.tab3.warning.rise =
                    last.Sea_Level_mm + (TargetYear - last.Year) * current_rate

\* C4, as stated: the growth-rate series of a filtered CO2 table of n rows
\* has n - 1 elements; its first element is the difference of the second
\* and first input values and belongs to the second input year.
C4_GrowthHasOneElementLess ==
    (Live /\ page.tab2.kind = "charts") =>
        LET growth == page.tab2.co2_growth
            n == Len(filtered_co2)
        IN  /\ Len(growth) = n - 1
            /\ n >= 2 =>
                /\ growth[1].Year = filtered_co2[2].Year
                /\ ~growth[1].Growth_Rate.isna
                /\ growth[1].Growth_Rate.v =
                        filtered_co2[2].CO2_ppm - filtered_co2[1].CO2_ppm

\* C4, amended: the growth-rate column has n entries, one per input row:
\* the entry of the first row is missing (NaN), and the entry of every
\* later row is the difference between that row's value and the value of
\* the row before it, so it holds n - 1 values, the first of which is the
\* difference of the second and first inputs and belongs to the second
\* input year.
C4_GrowthHasLeadingMissingValue ==
    (Live /\ page.tab2.kind = "charts") =>
        LET growth == page.tab2.co2_growth
            n == Len(filtered_co2)
        IN  /\ n >= 1
            /\ Len(growth) = n
            /\ growth[1].Growth_Rate.isna
            /\ Cardinality({i \in 1..n : ~growth[i].Growth_Rate.isna}) = n - 1
            /\ \A i \in 1..n : growth[i].Year = filtered_co2[i].Year
            /\ \A i \in 2..n :
                /\ ~growth[i].Growth_Rate.isna
                /\ growth[i].Growth_Rate.v =
                        filtered_co2[i].CO2_ppm - filtered_co2[i - 1].CO2_ppm

\* A run whose filtered CO2 table has several rows with different steps.
C4_Witness ==
    /\ Live
    /\ page.tab2.kind = "charts"
    /\ Len(filtered_co2) >= 3
    /\ page.tab2.co2_growth[2].Growth_Rate.v # page.tab2.co2_growth[3].Growth_Rate.v

\* The displayed latest value and delta of the Global temperature and the
\* CO2 metrics: the last row, and the last row minus the first row
TempAndCO2Metrics ==
    /\ Len(global_temp_data) > 0 =>
        /\ page.col1.kind = "metric"
        /\ page.col1.value =
                global_temp_data[Len(global_temp_data)].Temperature_Anomaly
        /\ page.col1.delta =
                global_temp_data[Len(global_temp_data)].Temperature_Anomaly
                    - global_temp_data[1].Temperature_Anomaly
        /\ \A i \in 1..Len(global_temp_data) :
                InRange(global_temp_data[i].Year)
                /\ global_temp_data[i].Region = Global
    /\ Len(filtered_co2) > 0 =>
        /\ page.col2.kind = "metric"
        /\ page.col2.value = filtered_co2[Len(filtered_co2)].CO2_ppm
        /\ page.col2.delta =
                filtered_co2[Len(filtered_co2)].CO2_ppm - filtered_co2[1].CO2_ppm

\* C5, as stated: for each of the three headline indicators, whenever its
\* filtered series is non-empty the displayed latest value is the last row
\* of the series and the displayed delta is that value minus the first
\* row's value of the same series.
C5_DeltaIsLastMinusFirst ==
    Live =>
        /\ TempAndCO2Metrics
        /\ Len(filtered_sea) > 0 =>
            /\ page.col3.kind = "metric"
            /\ page.col3.value = filtered_sea[Len(filtered_sea)].Sea_Level_mm
            /\ page.col3.delta =
                    filtered_sea[Len(filtered_sea)].Sea_Level_mm
                        - filtered_sea[1].Sea_Level_mm

\* C5, amended: as stated for the Global temperature anomaly and the CO2
\* level; for the sea level the displayed latest value is the last row of
\* the filtered series and the displayed delta is that same value, labelled
\* "since 1993", not the difference to the first row of the range.
C5_SeaDeltaIsLatestValue ==
    Live =>
        /\ TempAndCO2Metrics
        /\ Len(filtered_sea) > 0 =>
            /\ page.col3.kind = "metric"
            /\ page.col3.value = filtered_sea[Len(filtered_sea)].Sea_Level_mm
            /\ page.col3.delta = filtered_sea[Len(filtered_sea)].Sea_Level_mm
            /\ page.col3.since = SeaFirstYear

\* A run that shows all three metrics, each over several rows, where the
\* sea level's delta line differs from the change over the range.
C5_Witness ==
    /\ Live
    /\ page.col1.kind = "metric" /\ page.col1.delta # page.col1.value
    /\ page.col2.kind = "metric" /\ Len(filtered_co2) >= 2
    /\ page.col3.kind = "metric" /\ Len(filtered_sea) >= 2
    /\ page.col3.delta #
            filtered_sea[Len(filtered_sea)].Sea_Level_mm - filtered_sea[1].Sea_Level_mm

\* C6: after any sequence of control changes and reloads, each a full rerun
\* of the script, the three base tables are the ones the first call of
\* load_climate_data produced: every rerun leaves them as the run before
\* left them, and the generator body runs at most once per process.
C6_BaseTablesStable ==
    [][/\ Live => /\ temp_data' = temp_data
                  /\ co2_data' = co2_data
                  /\ sea_data' = sea_data
       /\ gen_runs' <= 1
       /\ cache'.filled
       /\ temp_data' = cache'.value.temp
       /\ co2_data' = cache'.value.co2
       /\ sea_data' = cache'.value.sea]_vars

\* A session that has rerun the script with both controls changed, the
\* generator having run once.
C6_Witness ==
    /\ Live
    /\ gen_runs = 1
    /\ year_range[1] # DefaultStart
    /\ year_range[2] # MaxYear
    /\ selected_regions # DefaultRegions
    /\ Len(temp_data) > 0

\* The years of a table are strictly ascending
Ascending(t) == \A i \in 1..(Len(t) - 1) : t[i].Year < t[i + 1].Year

YearsOf(t) == {t[i].Year : i \in 1..Len(t)}

RowsOfRegion(t, region) ==
    LET OfRegion(r) == r.Region = region IN SelectSeq(t, OfRegion)

\* C7: in the generated base data every (Region, Year) pair of the
\* temperature table is unique, every region is one of the five fixed
\* values, a Global row exists for every year 1880..2023, the rows of each
\* region are in ascending year order, and the CO2 and sea-level tables
\* have exactly one row per year, ascending, with all CO2 years >= 1958 and
\* all sea-level years >= 1993.
C7_BaseDataWellFormed ==
    Live =>
        /\ Cardinality({<<temp_data[i].Region, temp_data[i].Year>> :
                            i \in 1..Len(temp_data)}) = Len(temp_data)
        /\ \A i \in 1..Len(temp_data) : temp_data[i].Region \in Regions
        /\ Cardinality(Regions) = Len(regions) + 1
        /\ FirstYear..MaxYear \subseteq YearsOf(RowsOfRegion(temp_data, Global))
        /\ \A region \in Regions : Ascending(RowsOfRegion(temp_data, region))
        /\ Ascending(co2_data)
        /\ Ascending(sea_data)
        /\ Cardinality(YearsOf(co2_data)) = Len(co2_data)
        /\ Cardinality(YearsOf(sea_data)) = Len(sea_data)
        /\ \A y \in YearsOf(co2_data) : y >= CO2FirstYear
        /\ \A y \in YearsOf(sea_data) : y >= SeaFirstYear

\* The tables of a run, with rows of all five regions and of the first
\* years of the CO2 and the sea-level records.
C7_Witness ==
    /\ Live
    /\ {temp_data[i].Region : i \in 1..Len(temp_data)} = Regions
    /\ CO2FirstYear \in YearsOf(co2_data)
    /\ SeaFirstYear \in YearsOf(sea_data)
    /\ MaxYear \in YearsOf(sea_data)

\* C8: the projection anchors its offsets at the slider's end year; for
\* every range for which the filtered sea-level table is non-empty, that
\* is the year of the last filtered sea-level row, so the first projected
\* value is the last known sea level and every offset is the distance from
\* the last known point.
C8_ProjectionAnchoredAtLastRow ==
    (Live /\ Len(filtered_sea) > 0) =>
        LET last == filtered_sea[Len(filtered_sea)]
            years == page.tab3.projection_years
            rise == page.tab3.projected_rise
        IN  /\ page.tab3.kind = "charts"
            /\ last.Year = year_range[2]
            /\ Len(years) > 0 /\ Len(rise) = Len(years)
            /\ years[1] = last.Year
            /\ rise[1] = last.Sea_Level_mm
            /\ \A i \in 1..Len(years) :
                    rise[i] = last.Sea_Level_mm + (years[i] - last.Year) * current_rate

\* A projection from a range that ends before the last year of the data.
C8_Witness ==
    /\ Live
    /\ page.tab3.kind = "charts"
    /\ year_range[2] < MaxYear
    /\ Len(page.tab3.projected_rise) > 1

IsJoinOf(merged, globals, co2) ==
    /\ Len(merged) = Len(co2)
    /\ \A i \in 1..Len(merged) :
        /\ merged[i].Year = CO2FirstYear + i - 1
        /\ co2[i].Year = merged[i].Year
        /\ merged[i].CO2_ppm = co2[i].CO2_ppm
        /\ \E j \in 1..Len(globals) :
            /\ globals[j].Year = merged[i].Year
            /\ globals[j].Temperature_Anomaly = merged[i].Temperature_Anomaly

\* C10: after any sequence of control changes the correlation tab's joined
\* data is the inner join on Year of the unfiltered Global temperature rows
\* with the unfiltered CO2 table, one row for each year 1958..2023,
\* whatever the year range and the region selection: its length is never
\* below 2 and the coefficient is never missing for lack of data.
C10_MergedDataIsUnfilteredJoin ==
    Live =>
        /\ page.tab4.kind = "charts"
        /\ IsJoinOf(page.tab4.merged_data, RowsOfRegion(temp_data, Global), co2_data)
        /\ Len(page.tab4.merged_data) = MaxYear - CO2FirstYear + 1
        /\ Len(page.tab4.merged_data) >= 2
        /\ ~page.tab4.correlation.isna

\* A run over a range before the CO2 record, without the Global region,
\* that still joins every year of the CO2 record.
C10_Witness ==
    /\ Live
    /\ year_range[2] < CO2FirstYear
    /\ Global \notin selected_regions
    /\ Len(filtered_co2) = 0
    /\ Len(page.tab4.merged_data) > Len(filtered_co2) + 2

====
